---- MODULE Spec2Model ----
(***************************************************************************)
(* Contact-form worker (src/src/index.ts): one request handler that        *)
(* routes, parses and sanitizes the body, validates it, verifies the       *)
(* Turnstile token and sends the mail through the Resend API.              *)
(*                                                                         *)
(* A JavaScript value is a record [t, v]: t is its type and v its text as  *)
(* a sequence of one-character strings (the characters of a string, the    *)
(* digits of a number).  " " stands for a white-space character.           *)
(***************************************************************************)
EXTENDS Integers, Sequences, FiniteSets, TLC

VARIABLES env, request, allowedOrigin, payload, pc, calls,
          turnstileAnswer, resendAnswer, thrown, result

vars == <<env, request, allowedOrigin, payload, pc, calls,
          turnstileAnswer, resendAnswer, thrown, result>>

----------------------------------------------------------------------------
(* Bounds of the model *)

\* longest TO_EMAIL configuration string (characters)
MaxToLen == 2
\* longest ALLOWED_ORIGINS configuration string (characters)
MaxAllowedLen == 3
\* widest white-space padding around a submitted field
MaxPad == 1

(* Program constants *)
MinNameLen == 2
MinMessageLen == 10

----------------------------------------------------------------------------
(* JavaScript values *)

Undefined == [t |-> "undefined", v |-> <<>>]
JNull == [t |-> "null", v |-> <<>>]
JObject == [t |-> "object", v |-> <<>>]
Str(s) == [t |-> "string", v |-> s]
Num(d) == [t |-> "number", v |-> d]
Bool(b) == [t |-> "boolean", v |-> IF b THEN <<"1">> ELSE <<"0">>]

\* Boolean(x), !x
Truthy(x) ==
    CASE x.t = "undefined" -> FALSE
      [] x.t = "null" -> FALSE
      [] x.t = "string" -> x.v # <<>>
      [] x.t = "number" -> x.v # <<"0">>
      [] x.t = "boolean" -> x.v = <<"1">>
      [] OTHER -> TRUE

\* x ?? d
Coalesce(x, d) == IF x.t \in {"undefined", "null"} THEN d ELSE x

IsSpace(c) == c = " "

RECURSIVE TrimStart(_)
TrimStart(s) ==
    IF s # <<>> /\ IsSpace(Head(s)) THEN TrimStart(Tail(s)) ELSE s

RECURSIVE TrimEnd(_)
TrimEnd(s) ==
    IF s # <<>> /\ IsSpace(s[Len(s)]) THEN TrimEnd(SubSeq(s, 1, Len(s) - 1)) ELSE s

\* String.prototype.trim
Trim(s) == TrimEnd(TrimStart(s))

RECURSIVE SplitFrom(_, _)
SplitFrom(s, cur) ==
    IF s = <<>> THEN <<cur>>
    ELSE IF Head(s) = "," THEN <<cur>> \o SplitFrom(Tail(s), <<>>)
    ELSE SplitFrom(Tail(s), Append(cur, Head(s)))

\* String.prototype.split(',')
Split(s) == SplitFrom(s, <<>>)

NonEmptyEntry(e) == e # <<>>

\* ParseList without its .filter(Boolean)
ParseListNoFilter(s) ==
    LET parts == Split(s)
    IN  [i \in 1..Len(parts) |-> Trim(parts[i])]

\* s.split(',').map((entry) => entry.trim()).filter(Boolean)
ParseList(s) ==
    LET parts == Split(s)
    IN  SelectSeq([i \in 1..Len(parts) |-> Trim(parts[i])], NonEmptyEntry)

\* Array.prototype.includes
Includes(list, x) == \E i \in 1..Len(list) : list[i] = x

\* /^[^\s@]+@[^\s@]+\.[^\s@]+$/ .test(s)
emailRegex(s) ==
    \E i \in 1..Len(s), j \in 1..Len(s) :
        /\ s[i] = "@"
        /\ s[j] = "."
        /\ 1 < i
        /\ i + 1 < j
        /\ j < Len(s)
        /\ \A k \in 1..Len(s) : k # i => (~IsSpace(s[k]) /\ s[k] # "@")

----------------------------------------------------------------------------
(* Texts.  The user-facing Japanese messages of the source are written in   *)
(* English here; each is one opaque constant.                              *)

MsgName == "name: enter at least 2 characters"
MsgEmail == "email: the address format is not valid"
MsgSubject == "subject: choose a subject"
MsgMessage == "message: enter at least 10 characters"
MsgToken == "token: the verification token could not be obtained"
MsgDeliveryFailed == "mail delivery failed, try again later"
DefaultSubject == Str(<<"d", "e", "f">>)
\* the string 'true'
TrueText == Str(<<"t", "r", "u", "e">>)
\* validatePayload's null
NullResult == "<null>"

FieldNames == {"name", "email", "phone", "subject", "budget", "deadline",
               "message", "turnstileToken"}

----------------------------------------------------------------------------
(* Payload Sanitizer and Validator *)

\* (x ?? '').trim(): a TypeError unless the value is a string
TrimField(x) ==
    LET y == Coalesce(x, Str(<<>>))
    IN  IF y.t = "string" THEN [threw |-> FALSE, value |-> Str(Trim(y.v))]
        ELSE [threw |-> TRUE, value |-> Undefined]

\* raw is the parsed JSON body: its kind, and for every field name the
\* property value read from it (Undefined when it has no such property)
sanitizePayload(raw) ==
    LET name == TrimField(raw.f.name)
        email == TrimField(raw.f.email)
        phone == TrimField(raw.f.phone)
        deadline == TrimField(raw.f.deadline)
        message == TrimField(raw.f.message)
    IN  IF \/ raw.kind = "null"
           \/ name.threw \/ email.threw \/ phone.threw
           \/ deadline.threw \/ message.threw
        THEN [threw |-> TRUE, value |-> [n \in FieldNames |-> Undefined]]
        ELSE [threw |-> FALSE,
              value |-> [name |-> name.value,
                         email |-> email.value,
                         phone |-> phone.value,
                         subject |-> Coalesce(raw.f.subject, DefaultSubject),
                         budget |-> Coalesce(raw.f.budget, Str(<<>>)),
                         deadline |-> deadline.value,
                         message |-> message.value,
                         turnstileToken |-> Coalesce(raw.f.turnstileToken, Str(<<>>))]]

\* validatePayload with the message rule tested before the subject rule
validatePayloadMessageFirst(p) ==
    IF ~Truthy(p.name) \/ Len(p.name.v) < MinNameLen THEN MsgName
    ELSE IF ~Truthy(p.email) \/ ~emailRegex(p.email.v) THEN MsgEmail
    ELSE IF ~Truthy(p.message) \/ Len(p.message.v) < MinMessageLen THEN MsgMessage
    ELSE IF ~Truthy(p.subject) THEN MsgSubject
    ELSE IF ~Truthy(p.turnstileToken) THEN MsgToken
    ELSE NullResult

\* validatePayload without its turnstileToken rule
validatePayloadNoToken(p) ==
    IF ~Truthy(p.name) \/ Len(p.name.v) < MinNameLen THEN MsgName
    ELSE IF ~Truthy(p.email) \/ ~emailRegex(p.email.v) THEN MsgEmail
    ELSE IF ~Truthy(p.subject) THEN MsgSubject
    ELSE IF ~Truthy(p.message) \/ Len(p.message.v) < MinMessageLen THEN MsgMessage
    ELSE NullResult

validatePayload(p) ==
    IF ~Truthy(p.name) \/ Len(p.name.v) < MinNameLen THEN MsgName
    ELSE IF ~Truthy(p.email) \/ ~emailRegex(p.email.v) THEN MsgEmail
    ELSE IF ~Truthy(p.subject) THEN MsgSubject
    ELSE IF ~Truthy(p.message) \/ Len(p.message.v) < MinMessageLen THEN MsgMessage
    ELSE IF ~Truthy(p.turnstileToken) THEN MsgToken
    ELSE NullResult

----------------------------------------------------------------------------
(* Response Builder *)

\* resolveAllowedOrigin answering the wildcard itself instead of the origin
resolveAllowedOriginWildcardLiteral(origin, configured) ==
    IF ~Truthy(origin) \/ ~Truthy(configured) THEN JNull
    ELSE LET entries == ParseList(configured.v)
         IN  IF Includes(entries, <<"*">>) THEN Str(<<"*">>)
             ELSE IF Includes(entries, origin.v) THEN origin
             ELSE JNull

resolveAllowedOrigin(origin, configured) ==
    IF ~Truthy(origin) \/ ~Truthy(configured) THEN JNull
    ELSE LET entries == ParseList(configured.v)
         IN  IF Includes(entries, <<"*">>) THEN origin
             ELSE IF Includes(entries, origin.v) THEN origin
             ELSE JNull

buildCorsHeaders(origin) ==
    LET headers == ("Access-Control-Allow-Methods" :> "POST, OPTIONS")
                   @@ ("Access-Control-Allow-Headers" :> "Content-Type")
    IN  IF Truthy(origin)
        THEN ("Access-Control-Allow-Origin" :> origin.v) @@ ("Vary" :> "Origin")
             @@ headers
        ELSE headers

\* new Response(null, ...): the body is the empty sequence
buildCorsResponse(status, origin) ==
    [status |-> status, body |-> <<>>, headers |-> buildCorsHeaders(origin)]

\* extraHeaders is spread last, the CORS headers before it
buildJsonResponse(status, body, origin, extraHeaders) ==
    [status |-> status,
     body |-> <<body>>,
     headers |-> extraHeaders @@ buildCorsHeaders(origin)
                 @@ ("Content-Type" :> "application/json")]

NoHeaders == [h \in {} |-> ""]

Failure(error) == [success |-> FALSE, error |-> error]
Success == [success |-> TRUE]

Responded(r) == [kind |-> "response", response |-> r]
Unhandled == [kind |-> "unhandled"]
Pending == [kind |-> "pending"]

----------------------------------------------------------------------------
(* Router/Method-Gate: worker.fetch up to its first await *)

\* Route with the method tested before the path
RouteMethodFirst(method, path) ==
    IF method = "OPTIONS" THEN "preflight"
    ELSE IF method # "POST" THEN "method_not_allowed"
    ELSE IF path # "/api/contact" THEN "not_found"
    ELSE "contact"

Route(method, path) ==
    IF method = "OPTIONS" THEN "preflight"
    ELSE IF path # "/api/contact" THEN "not_found"
    ELSE IF method # "POST" THEN "method_not_allowed"
    ELSE "contact"

\* worker.fetch from its entry to `await request.json()`
fetchEntry(req, e) ==
    LET origin == resolveAllowedOrigin(req.origin, e.ALLOWED_ORIGINS)
        route == Route(req.method, req.path)
    IN  [allowedOrigin |-> origin,
         pc |-> IF route = "contact" THEN "reading_body" ELSE "done",
         result |->
            CASE route = "preflight" ->
                    Responded(buildCorsResponse(204, origin))
              [] route = "not_found" ->
                    Responded(buildJsonResponse(404, Failure("Not found"), origin,
                                                NoHeaders))
              [] route = "method_not_allowed" ->
                    Responded(buildJsonResponse(405, Failure("Method not allowed"),
                                                origin, "Allow" :> "POST, OPTIONS"))
              [] OTHER -> Pending]

----------------------------------------------------------------------------
(* Bot Verifier *)

NoError == [message |-> "", status |-> 0, body |-> ""]
Error(message) == [message |-> message, status |-> 0, body |-> ""]

\* secretMissing testing for undefined only
secretMissingUndefinedOnly(secret) == secret.t = "undefined"

\* if (!secret) throw
secretMissing(secret) == ~Truthy(secret)

\* response.ok
Ok(status) == status \in 200..299

\* verifyTurnstileResult without its response.ok test
verifyTurnstileResultIgnoreStatus(a) ==
    IF a.rejected THEN "throw"
    ELSE IF a.json \in {"invalid", "null"} THEN "throw"
    ELSE IF Truthy(a.success) THEN "true"
    ELSE "false"

\* verifyTurnstile after its fetch settled: "true" or "false" is the value
\* returned, "throw" an exception (the fetch rejected, response.json()
\* rejected, or result is null and result.success is a TypeError)
verifyTurnstileResult(a) ==
    IF a.rejected THEN "throw"
    ELSE IF ~Ok(a.status) THEN "false"
    ELSE IF a.json \in {"invalid", "null"} THEN "throw"
    ELSE IF Truthy(a.success) THEN "true"
    ELSE "false"

----------------------------------------------------------------------------
(* Mail Dispatcher *)

\* escape(value) in buildHtmlBody calls value.replace: a TypeError unless the
\* value is a string.  name, email, phone, deadline and message are strings
\* after sanitizePayload; subject and `budget || '-'` are whatever was sent.
buildHtmlBodyThrows(p) ==
    \/ p.subject.t # "string"
    \/ Truthy(p.budget) /\ p.budget.t # "string"

\* sendResendEmailBegin with the RESEND_DISABLED test after the toList test
sendResendEmailBeginListFirst(p, e) ==
    IF e.TO_EMAIL.t # "string" THEN "throw"
    ELSE IF Len(ParseList(e.TO_EMAIL.v)) = 0 THEN "throw"
    ELSE IF e.RESEND_DISABLED = TrueText THEN "skip"
    ELSE IF buildHtmlBodyThrows(p) THEN "throw"
    ELSE "fetch"

\* sendResendEmail up to its fetch: "skip" returns at once, "throw" raises
\* (TO_EMAIL.split on a non-string, an empty toList, buildHtmlBody), "fetch"
\* calls the mail API
sendResendEmailBegin(p, e) ==
    IF e.RESEND_DISABLED = TrueText THEN "skip"
    ELSE IF e.TO_EMAIL.t # "string" THEN "throw"
    ELSE IF Len(ParseList(e.TO_EMAIL.v)) = 0 THEN "throw"
    ELSE IF buildHtmlBodyThrows(p) THEN "throw"
    ELSE "fetch"

\* the error sendResendEmailBegin's "throw" raises
sendResendEmailError(p, e) ==
    IF e.TO_EMAIL.t = "string" /\ Len(ParseList(e.TO_EMAIL.v)) = 0
    THEN Error("TO_EMAIL is not configured")
    ELSE Error("TypeError")

\* deliveryFailure putting the caught error's text into the response
deliveryFailureEcho(error, origin) ==
    buildJsonResponse(502, Failure(error.body), origin, NoHeaders)

\* worker.fetch's catch around sendResendEmail
deliveryFailure(error, origin) ==
    buildJsonResponse(502, Failure(MsgDeliveryFailed), origin, NoHeaders)

----------------------------------------------------------------------------
(* worker.fetch between its awaits *)

NoPayload == [n \in FieldNames |-> Undefined]

\* from the settling of request.json() to the fetch verifyTurnstile issues
afterBody(req, e, origin) ==
    LET sane == sanitizePayload(req.body)
        validationError == validatePayload(sane.value)
    IN  IF req.body.kind = "invalid" \/ sane.threw
        THEN [payload |-> NoPayload, pc |-> "done", calls |-> <<>>,
              thrown |-> Error(IF req.body.kind = "invalid" THEN "SyntaxError"
                               ELSE "TypeError"),
              result |-> Responded(buildJsonResponse(
                             400, Failure("Invalid JSON payload"), origin, NoHeaders))]
        ELSE IF validationError # NullResult
        THEN [payload |-> sane.value, pc |-> "done", calls |-> <<>>,
              thrown |-> NoError,
              result |-> Responded(buildJsonResponse(
                             422, Failure(validationError), origin, NoHeaders))]
        ELSE IF secretMissing(e.TURNSTILE_SECRET)
        THEN [payload |-> sane.value, pc |-> "done", calls |-> <<>>,
              thrown |-> Error("TURNSTILE_SECRET is not configured"),
              result |-> Unhandled]
        ELSE [payload |-> sane.value, pc |-> "awaiting_turnstile",
              calls |-> <<"turnstile">>, thrown |-> NoError, result |-> Pending]

\* from the settling of verifyTurnstile's fetch to the fetch sendResendEmail
\* issues
afterTurnstile(a, p, e, origin, called) ==
    LET verdict == verifyTurnstileResult(a)
        begin == sendResendEmailBegin(p, e)
    IN  IF verdict = "throw"
        THEN [pc |-> "done", calls |-> called, thrown |-> Error("verifyTurnstile"),
              result |-> Unhandled]
        ELSE IF verdict = "false"
        THEN [pc |-> "done", calls |-> called, thrown |-> NoError,
              result |-> Responded(buildJsonResponse(
                             403, Failure("Bot verification failed"), origin,
                             NoHeaders))]
        ELSE IF begin = "skip"
        THEN [pc |-> "done", calls |-> called, thrown |-> NoError,
              result |-> Responded(buildJsonResponse(200, Success, origin, NoHeaders))]
        ELSE IF begin = "throw"
        THEN [pc |-> "done", calls |-> called,
              thrown |-> sendResendEmailError(p, e),
              result |-> Responded(deliveryFailure(sendResendEmailError(p, e), origin))]
        ELSE [pc |-> "awaiting_resend", calls |-> Append(called, "resend"),
              thrown |-> NoError, result |-> Pending]

\* the error sendResendEmail raises once its fetch settled, NoError if none
resendError(a) ==
    IF a.rejected THEN Error("fetch failed")
    ELSE IF ~Ok(a.status)
    THEN [message |-> "Resend API error", status |-> a.status, body |-> a.text]
    ELSE NoError

\* from the settling of sendResendEmail's fetch to the response
afterResend(a, origin) ==
    LET error == resendError(a)
    IN  IF error = NoError
        THEN [thrown |-> NoError,
              result |-> Responded(buildJsonResponse(200, Success, origin, NoHeaders))]
        ELSE [thrown |-> error, result |-> Responded(deliveryFailure(error, origin))]

----------------------------------------------------------------------------
(* Inputs *)

SeqsUpTo(A, n) == UNION {[1..k -> A] : k \in 0..n}

\* s between k white-space characters on each side
Pad(s, k) == [i \in 1..k |-> " "] \o s \o [i \in 1..k |-> " "]
Padded(s) == {Str(Pad(s, k)) : k \in 0..MaxPad}
Chars(c, n) == [i \in 1..n |-> c]

GoodEmail == <<"a", "@", "b", ".", "c">>
GoodMessage == Chars("m", MinMessageLen)

Body(kind, f) == [kind |-> kind, f |-> f]
NoFields == [n \in FieldNames |-> Undefined]
GoodFields ==
    [name |-> Str(<<"n", "n">>), email |-> Str(GoodEmail), phone |-> Str(<<>>),
     subject |-> Str(<<"s">>), budget |-> Str(<<"b">>), deadline |-> Str(<<"d">>),
     message |-> Str(GoodMessage), turnstileToken |-> Str(<<"t">>)]
Req(method, path, origin, body) ==
    [method |-> method, path |-> path, origin |-> origin, body |-> body]
NoRequest == Req("", "", JNull, Body("invalid", NoFields))

Methods == {"OPTIONS", "POST", "GET"}
Paths == {"/api/contact", "/other"}

\* bodies of every JSON shape: not JSON at all, null, a primitive or an
\* array (no field can be read from it), and objects
BodiesMain ==
    {Body("invalid", NoFields), Body("null", NoFields), Body("primitive", NoFields),
     Body("object", GoodFields),
     Body("object", [GoodFields EXCEPT !.turnstileToken = Undefined]),
     Body("object", [GoodFields EXCEPT !.subject = Num(<<"5">>)]),
     Body("object", [GoodFields EXCEPT !.name = Num(<<"5">>)])}

RequestsMain ==
    {Req(m, p, o, b) : m \in Methods, p \in Paths,
                       o \in {JNull, Str(<<"a">>)}, b \in BodiesMain}

FalseText == Str(<<"f", "a", "l", "s", "e">>)

EnvsMain ==
    [RESEND_API_KEY : {Undefined, Str(<<"k">>)},
     FROM_EMAIL : {Undefined, Str(<<"f">>)},
     TO_EMAIL : {Undefined} \cup {Str(s) : s \in SeqsUpTo({"a", ",", " "}, MaxToLen)},
     TURNSTILE_SECRET : {Undefined, Str(<<>>), Str(<<"s">>)},
     ALLOWED_ORIGINS : {Str(<<"a">>)},
     RESEND_DISABLED : {Undefined, TrueText, FalseText}]

\* what the verification service can answer: the fetch rejects, or a response
\* with a status and a body that is no JSON, JSON null, or a JSON value whose
\* success property is read
TurnstileAnswers ==
    {[rejected |-> TRUE, status |-> 0, json |-> "invalid", success |-> Undefined]}
    \cup [rejected : {FALSE}, status : {200, 500}, json : {"value"},
          success : {Undefined, JNull, Bool(TRUE), Bool(FALSE), Str(<<"y">>),
                     Num(<<"0">>)}]
    \cup [rejected : {FALSE}, status : {200, 500}, json : {"invalid", "null"},
          success : {Undefined}]
NoTurnstileAnswer ==
    [rejected |-> FALSE, status |-> 0, json |-> "invalid", success |-> Undefined]

\* what the mail API can answer
ResendAnswers ==
    {[rejected |-> TRUE, status |-> 0, text |-> ""]}
    \cup [rejected : {FALSE}, status : {200, 422, 500}, text : {"{}", "quota exceeded"}]
NoResendAnswer == [rejected |-> FALSE, status |-> 0, text |-> ""]

----------------------------------------------------------------------------
(* The state machine: one invocation of worker.fetch *)

InitWith(Envs) ==
    /\ env \in Envs
    /\ request = NoRequest
    /\ allowedOrigin = JNull
    /\ payload = NoPayload
    /\ pc = "idle"
    /\ calls = <<>>
    /\ turnstileAnswer = NoTurnstileAnswer
    /\ resendAnswer = NoResendAnswer
    /\ thrown = NoError
    /\ result = Pending

\* the runtime invokes fetch(request, env)
Receive(Requests) ==
    /\ pc = "idle"
    /\ \E req \in Requests :
          LET s == fetchEntry(req, env)
          IN  /\ request' = req
              /\ allowedOrigin' = s.allowedOrigin
              /\ pc' = s.pc
              /\ result' = s.result
    /\ UNCHANGED <<env, payload, calls, turnstileAnswer, resendAnswer, thrown>>

\* request.json() settles
BodyRead ==
    /\ pc = "reading_body"
    /\ LET s == afterBody(request, env, allowedOrigin)
       IN  /\ payload' = s.payload
           /\ pc' = s.pc
           /\ calls' = s.calls
           /\ thrown' = s.thrown
           /\ result' = s.result
    /\ UNCHANGED <<env, request, allowedOrigin, turnstileAnswer, resendAnswer>>

\* the fetch to the verification service settles
TurnstileResponded ==
    /\ pc = "awaiting_turnstile"
    /\ \E a \in TurnstileAnswers :
          LET s == afterTurnstile(a, payload, env, allowedOrigin, calls)
          IN  /\ turnstileAnswer' = a
              /\ pc' = s.pc
              /\ calls' = s.calls
              /\ thrown' = s.thrown
              /\ result' = s.result
    /\ UNCHANGED <<env, request, allowedOrigin, payload, resendAnswer>>

\* the fetch to the mail API settles
ResendResponded ==
    /\ pc = "awaiting_resend"
    /\ \E a \in ResendAnswers :
          LET s == afterResend(a, allowedOrigin)
          IN  /\ resendAnswer' = a
              /\ pc' = "done"
              /\ thrown' = s.thrown
              /\ result' = s.result
    /\ UNCHANGED <<env, request, allowedOrigin, payload, calls, turnstileAnswer>>

Init == InitWith(EnvsMain)

Next ==
    \/ Receive(RequestsMain)
    \/ BodyRead
    \/ TurnstileResponded
    \/ ResendResponded

Spec == Init /\ [][Next]_vars

----------------------------------------------------------------------------
(* CORS resolution over every short ALLOWED_ORIGINS string *)

GoodEnv ==
    [RESEND_API_KEY |-> Str(<<"k">>), FROM_EMAIL |-> Str(<<"f">>),
     TO_EMAIL |-> Str(<<"a">>), TURNSTILE_SECRET |-> Str(<<"s">>),
     ALLOWED_ORIGINS |-> Str(<<"a">>), RESEND_DISABLED |-> Undefined]

EnvsCors ==
    {[GoodEnv EXCEPT !.ALLOWED_ORIGINS = a] :
        a \in {Undefined}
              \cup {Str(s) : s \in SeqsUpTo({"a", "*", ",", " "}, MaxAllowedLen)}}

\* no Origin header, an empty one, and origins in and out of the lists
Origins == {JNull, Str(<<>>), Str(<<"a">>), Str(<<"a", "a">>), Str(<<"b">>),
            Str(<<"*">>)}

RequestsCors ==
    {Req(m, p, o, b) :
        m \in Methods, p \in Paths, o \in Origins,
        b \in {Body("invalid", NoFields), Body("object", GoodFields),
               Body("object", [GoodFields EXCEPT !.message = Undefined])}}

InitCors == InitWith(EnvsCors)

NextCors ==
    \/ Receive(RequestsCors)
    \/ BodyRead
    \/ TurnstileResponded
    \/ ResendResponded

SpecCors == InitCors /\ [][NextCors]_vars

----------------------------------------------------------------------------
(* Sanitizer and validator over request bodies of every shape *)

NameValues ==
    {Undefined, Num(<<"5">>), Str(<<>>)} \cup Padded(<<"n">>) \cup Padded(<<"n", "n">>)
EmailValues ==
    {Undefined, JObject, Str(<<"a", "@", "b">>), Str(<<"a", " ", "@", "b", ".", "c">>)}
    \cup Padded(GoodEmail)
SubjectValues == {Undefined, JNull, Str(<<>>), Str(<<"s">>), Num(<<"5">>)}
MessageValues ==
    {Undefined} \cup Padded(Chars("m", MinMessageLen - 1)) \cup Padded(GoodMessage)
TokenValues == {Undefined, Str(<<>>), Str(<<" ", "t">>), Num(<<"7">>)}
\* phone, budget, deadline
OptionalValues ==
    {<<Undefined, Undefined, Undefined>>,
     <<Str(<<" ", "p">>), Str(<<" ", "b">>), Str(<<"d", " ">>)>>,
     <<Str(<<"p">>), Num(<<"5">>), Bool(TRUE)>>}

BodiesPayload ==
    {Body(k, NoFields) : k \in {"invalid", "null", "primitive", "array"}}
    \cup {Body("object",
               [name |-> n, email |-> e, phone |-> o[1], subject |-> s,
                budget |-> o[2], deadline |-> o[3], message |-> m,
                turnstileToken |-> t]) :
            n \in NameValues, e \in EmailValues, s \in SubjectValues,
            m \in MessageValues, t \in TokenValues, o \in OptionalValues}

RequestsPayload == {Req("POST", "/api/contact", Str(<<"a">>), b) : b \in BodiesPayload}

InitPayload == InitWith({GoodEnv})

NextPayload ==
    \/ Receive(RequestsPayload)
    \/ BodyRead
    \/ TurnstileResponded
    \/ ResendResponded

SpecPayload == InitPayload /\ [][NextPayload]_vars

----------------------------------------------------------------------------
(* Vocabulary of the properties, stated on the request, the configuration  *)
(* and the services' answers, not on the handler's own operators           *)

Done == pc = "done"
IsResponse == result.kind = "response"
HasJsonBody == IsResponse /\ result.response.body # <<>>
JsonBody == result.response.body[1]
IsJson(status, body) ==
    /\ HasJsonBody
    /\ result.response.status = status
    /\ JsonBody = body

ContactPost == request.method = "POST" /\ request.path = "/api/contact"

\* the five rules of the validator, in their order
RuleHolds(p) ==
    <<p.name.t = "string" /\ Len(p.name.v) >= 2,
      p.email.t = "string" /\ emailRegex(p.email.v),
      Truthy(p.subject),
      p.message.t = "string" /\ Len(p.message.v) >= 10,
      Truthy(p.turnstileToken)>>
RuleMessage == <<MsgName, MsgEmail, MsgSubject, MsgMessage, MsgToken>>
AllRulesHold(p) == \A i \in 1..5 : RuleHolds(p)[i]
FirstViolated(p) ==
    CHOOSE i \in 1..5 : ~RuleHolds(p)[i] /\ \A j \in 1..(i - 1) : RuleHolds(p)[j]

\* the body was parsed and sanitized
Sanitized == payload # NoPayload
Validated == Sanitized /\ AllRulesHold(payload)

\* the verification service has answered
TurnstileAnswered == calls # <<>> /\ pc # "awaiting_turnstile"
\* it answered with a success status and a truthy success field
HumanVerdict(a) ==
    /\ ~a.rejected
    /\ a.status \in 200..299
    /\ a.json = "value"
    /\ Truthy(a.success)
\* it answered with a non-success status, or with a body whose success field
\* is false or missing
RefusedVerdict(a) ==
    /\ ~a.rejected
    /\ \/ a.status \notin 200..299
       \/ a.json = "value" /\ a.success \in {Undefined, Bool(FALSE)}
Verified == TurnstileAnswered /\ HumanVerdict(turnstileAnswer)

\* the mail API has answered
ResendAnswered == Len(calls) = 2 /\ pc = "done"
ResendRefused == ResendAnswered /\ ~resendAnswer.rejected
                 /\ resendAnswer.status \notin 200..299

SecretUnset == env.TURNSTILE_SECRET.t = "undefined" \/ env.TURNSTILE_SECRET.v = <<>>
DeliveryDisabled == env.RESEND_DISABLED = TrueText
\* the recipient string holds nothing but commas and white space
NoRecipients ==
    /\ env.TO_EMAIL.t = "string"
    /\ \A i \in 1..Len(env.TO_EMAIL.v) : env.TO_EMAIL.v[i] \in {",", " "}

----------------------------------------------------------------------------
(* C1: within one request the outbound calls are a prefix of <<verification,
   mail>>: the verification service is called at most once and only for a
   POST to /api/contact whose body parsed and passed the validator; the mail
   API is called at most once and only after a human verdict; a failed call
   ends the request with no further call. *)
C1_CallsArePrefix ==
    /\ calls \in {<<>>, <<"turnstile">>, <<"turnstile", "resend">>}
    /\ calls # <<>> =>
          ContactPost /\ request.body.kind # "invalid" /\ Validated
    /\ Len(calls) = 2 => Verified
    /\ (TurnstileAnswered /\ ~HumanVerdict(turnstileAnswer)) =>
          Done /\ calls = <<"turnstile">>
    /\ (ResendAnswered /\ (resendAnswer.rejected \/ resendAnswer.status \notin 200..299)) =>
          calls = <<"turnstile", "resend">>

C1_Witness ==
    /\ Done
    /\ calls = <<"turnstile", "resend">>
    /\ resendAnswer.status = 500

(* C2: verification is fail-closed: a non-success status, or a body whose
   success field is false or missing, ends the request with 403 "Bot
   verification failed" and no mail call; 200 {success: true} is produced
   only after a success status with a truthy success field. *)
C2_FailClosed ==
    /\ (TurnstileAnswered /\ RefusedVerdict(turnstileAnswer)) =>
          /\ Done
          /\ IsJson(403, Failure("Bot verification failed"))
          /\ calls = <<"turnstile">>
    /\ (HasJsonBody /\ (result.response.status = 200 \/ JsonBody.success)) => Verified

C2_Witness ==
    /\ TurnstileAnswered
    /\ turnstileAnswer.status = 500
    /\ turnstileAnswer.success = Bool(TRUE)
    /\ IsJson(403, Failure("Bot verification failed"))

(* C4: with RESEND_DISABLED 'true', a validated and verified request never
   reaches the mail API and is answered 200 {success: true}, whatever the
   API key, the from-address and the recipient list are. *)
C4_DisabledSkipsMail ==
    (DeliveryDisabled /\ Validated /\ Verified) =>
        /\ Done
        /\ calls = <<"turnstile">>
        /\ IsJson(200, Success)

C4_Witness ==
    /\ DeliveryDisabled /\ Validated /\ Verified
    /\ env.TO_EMAIL = Str(<<",">>)
    /\ env.RESEND_API_KEY = Undefined
    /\ IsJson(200, Success)

(* C5 as stated: with delivery enabled and an empty recipient list, a
   validated and verified request ends in an unhandled error, not in a JSON
   error envelope, and the mail API is not called. *)
C5_EmptyRecipientsUnhandled ==
    (~DeliveryDisabled /\ NoRecipients /\ Validated /\ Verified) =>
        /\ Done
        /\ result = Unhandled
        /\ calls = <<"turnstile">>

(* C5 amended: with delivery enabled and an empty recipient list, a validated
   and verified request is answered with the 502 delivery-failure envelope
   (the handler catches the error 'TO_EMAIL is not configured'), and the
   mail API is not called. *)
C5_EmptyRecipientsAnswered502 ==
    (~DeliveryDisabled /\ NoRecipients /\ Validated /\ Verified) =>
        /\ Done
        /\ IsJson(502, Failure(MsgDeliveryFailed))
        /\ thrown.message = "TO_EMAIL is not configured"
        /\ calls = <<"turnstile">>

C5_Witness ==
    /\ ~DeliveryDisabled /\ Validated /\ Verified
    /\ env.TO_EMAIL = Str(<<",", " ">>)
    /\ IsJson(502, Failure(MsgDeliveryFailed))

(* C6: with the verification secret unset, a POST to /api/contact whose
   payload passes validation ends in an unhandled error with no call to
   either service, and no request is answered {success: true}. *)
C6_SecretUnsetIsFatal ==
    SecretUnset =>
        /\ (ContactPost /\ Validated) => (Done /\ result = Unhandled /\ calls = <<>>)
        /\ ~(HasJsonBody /\ JsonBody.success)
        /\ calls = <<>>

C6_Witness ==
    /\ env.TURNSTILE_SECRET = Str(<<>>)
    /\ ContactPost /\ Validated
    /\ result = Unhandled

(* C7: when the mail API answers with a non-success status the response is
   502 with the fixed delivery-failure message, and it is the same response
   whatever the failing status and error body were: it is determined by the
   request's Origin and the configured allow-list alone. *)
C7_FailureNotEchoed ==
    ResendRefused =>
        /\ IsResponse
        /\ result.response.status = 502
        /\ result.response.body = <<[success |-> FALSE, error |-> MsgDeliveryFailed]>>
        /\ result.response.headers =
              buildCorsHeaders(allowedOrigin) @@ ("Content-Type" :> "application/json")
        /\ \A other \in ResendAnswers :
              (~other.rejected /\ other.status \notin 200..299) =>
                  afterResend(other, allowedOrigin).result = result

C7_Witness ==
    /\ ResendRefused
    /\ resendAnswer.status = 500
    /\ resendAnswer.text = "quota exceeded"
    /\ result.response.status = 502

----------------------------------------------------------------------------
\* the verification service answered, and its answer is no human verdict
VerificationFailed ==
    /\ TurnstileAnswered
    /\ ~turnstileAnswer.rejected
    /\ \/ turnstileAnswer.status \notin 200..299
       \/ turnstileAnswer.json = "value" /\ ~Truthy(turnstileAnswer.success)
\* the dispatch of a verified request raised: before its call to the mail
\* API, or because that call was rejected or refused
DeliveryFailed ==
    /\ Verified /\ Done /\ ~DeliveryDisabled
    /\ \/ Len(calls) = 1
       \/ resendAnswer.rejected
       \/ resendAnswer.status \notin 200..299

(* C8: a response with a JSON body has a status among 200, 400, 403, 404,
   405, 422, 502, success true exactly for 200 and an error exactly when
   success is false; the status is that of the first stage that stops the
   pipeline: 404 off /api/contact, 405 with Allow: POST, OPTIONS for another
   method, 400 from the body stage, 422 from validation, 403 from
   verification, 502 from delivery, 200 otherwise; OPTIONS gets an empty
   204 on any path. *)
C8_StatusByStage ==
    /\ HasJsonBody =>
          /\ result.response.status \in {200, 400, 403, 404, 405, 422, 502}
          /\ JsonBody.success <=> result.response.status = 200
          /\ ("error" \in DOMAIN JsonBody) <=> ~JsonBody.success
          /\ DOMAIN JsonBody \subseteq {"success", "error"}
    /\ (IsResponse /\ ~HasJsonBody) => request.method = "OPTIONS"
    /\ pc # "idle" =>
          /\ request.method = "OPTIONS" =>
                Done /\ IsResponse /\ result.response.status = 204
                /\ result.response.body = <<>>
          /\ (request.method # "OPTIONS" /\ request.path # "/api/contact") =>
                Done /\ HasJsonBody /\ result.response.status = 404
          /\ (request.method \notin {"OPTIONS", "POST"}
              /\ request.path = "/api/contact") =>
                /\ Done /\ HasJsonBody /\ result.response.status = 405
                /\ "Allow" \in DOMAIN result.response.headers
                /\ result.response.headers["Allow"] = "POST, OPTIONS"
    /\ (Done /\ ContactPost) =>
          /\ request.body.kind = "invalid" => HasJsonBody /\ result.response.status = 400
          /\ ~Sanitized => HasJsonBody /\ result.response.status = 400
          /\ (Sanitized /\ ~Validated) => HasJsonBody /\ result.response.status = 422
          /\ VerificationFailed => HasJsonBody /\ result.response.status = 403
          /\ DeliveryFailed => HasJsonBody /\ result.response.status = 502
          /\ (Verified /\ ~DeliveryFailed) => HasJsonBody /\ result.response.status = 200
          /\ IsResponse =>
                \/ ~Sanitized
                \/ ~Validated
                \/ VerificationFailed
                \/ Verified

C8_Witness ==
    /\ Done
    /\ request.method = "GET"
    /\ request.path = "/api/contact"
    /\ HasJsonBody
    /\ result.response.status = 405
    /\ result.response.headers["Allow"] = "POST, OPTIONS"

----------------------------------------------------------------------------
\* text x is an entry of the comma-separated string s: some stretch of s
\* between two commas (or the ends of s) is x once trimmed
ListContains(s, x) ==
    \E i \in 1..(Len(s) + 1), j \in 0..Len(s) :
        /\ i <= j
        /\ i = 1 \/ s[i - 1] = ","
        /\ j = Len(s) \/ s[j + 1] = ","
        /\ \A k \in i..j : s[k] # ","
        /\ Trim(SubSeq(s, i, j)) = x

OriginAllowed ==
    /\ request.origin.t = "string"
    /\ request.origin.v # <<>>
    /\ env.ALLOWED_ORIGINS.t = "string"
    /\ \/ ListContains(env.ALLOWED_ORIGINS.v, <<"*">>)
       \/ ListContains(env.ALLOWED_ORIGINS.v, request.origin.v)

(* C9: every response (preflight, success, every error envelope) carries
   Access-Control-Allow-Origin exactly when the request has an Origin and
   the allow-list holds the wildcard or that Origin as an exact entry; its
   value is then the Origin verbatim, and Vary: Origin comes with it and
   only with it. *)
C9_CorsEcho ==
    IsResponse =>
        LET headers == result.response.headers
        IN  /\ ("Access-Control-Allow-Origin" \in DOMAIN headers) <=> OriginAllowed
            /\ ("Vary" \in DOMAIN headers) <=>
                  ("Access-Control-Allow-Origin" \in DOMAIN headers)
            /\ OriginAllowed =>
                  /\ headers["Access-Control-Allow-Origin"] = request.origin.v
                  /\ headers["Vary"] = "Origin"

C9_Witness ==
    /\ IsResponse
    /\ result.response.status = 422
    /\ request.origin = Str(<<"a">>)
    /\ env.ALLOWED_ORIGINS = Str(<<" ", "*", ",">>)
    /\ result.response.headers["Access-Control-Allow-Origin"] = <<"a">>

----------------------------------------------------------------------------
(* C3: a sanitized submission that violates a rule is answered 422 with the
   message of the first violated rule in the order name, email, subject,
   message, turnstileToken, and with no later rule's message; the validator
   lets a submission through only when all five rules hold. *)
C3_FirstViolatedRuleReported ==
    (pc \notin {"idle", "reading_body"} /\ Sanitized) =>
        IF AllRulesHold(payload)
        THEN ~(IsResponse /\ result.response.status = 422)
        ELSE /\ Done
             /\ IsJson(422, Failure(RuleMessage[FirstViolated(payload)]))
             /\ calls = <<>>

C3_Witness ==
    /\ Done /\ Sanitized
    /\ RuleHolds(payload)[1] /\ RuleHolds(payload)[2]
    /\ ~RuleHolds(payload)[3] /\ ~RuleHolds(payload)[4] /\ ~RuleHolds(payload)[5]
    /\ IsJson(422, Failure(MsgSubject))

(* C10: for every body that is valid JSON, whatever its shape, the sanitizer
   does not fail and yields eight strings, name, email, phone, deadline,
   message and turnstileToken trimmed, subject and budget as sent or their
   defaults; 400 is answered only to a body that is not valid JSON. *)
C10_SanitizerTotal ==
    (pc \notin {"idle", "reading_body"} /\ ContactPost
     /\ request.body.kind # "invalid") =>
        /\ Sanitized
        /\ \A n \in FieldNames : payload[n].t = "string"
        /\ \A n \in {"name", "email", "phone", "deadline", "message",
                     "turnstileToken"} : Trim(payload[n].v) = payload[n].v
        /\ payload.subject = Coalesce(request.body.f.subject, DefaultSubject)
        /\ payload.budget = Coalesce(request.body.f.budget, Str(<<>>))
        /\ ~(IsResponse /\ result.response.status = 400)

====
